---- MODULE Spec2Model ----
(***************************************************************************)
(* The format-requests application: the vote-toggle transaction engine and *)
(* live-update broadcaster of the server (server.ts) over a PostgreSQL     *)
(* store running each toggle as one READ COMMITTED transaction, the admin  *)
(* catalog requests and the seed script, and the browser client (App.tsx). *)
(*                                                                         *)
(* Every `await client.query(...)` of the vote handler is one action.      *)
(* The store keeps committed rows in `formats` and `votes`; the rows a     *)
(* transaction has written but not committed live in its own record and    *)
(* reach the committed tables at COMMIT, or vanish at ROLLBACK.  Row       *)
(* locks and the primary-key check make a statement wait (the action is    *)
(* disabled) while a conflicting transaction is in progress.               *)
(*                                                                         *)
(* Spec is the vote engine, SpecLive adds the event streams, SpecAdmin the *)
(* admin delete, SpecCatalog is the catalog alone (seed, create, status),  *)
(* SpecClient puts one browser client in front of the vote engine.         *)
(***************************************************************************)
EXTENDS Integers, FiniteSets, Sequences, TLC

\* ------------------------------------------------------------- bounds
NumTx == 2
MaxFaults == 1
SeedMax == 1
MaxPings == 1
MaxClicks == 2

\* ------------------------------------------------------------- universe
Tx == 1..NumTx
Devices == {"d1", "d2"}
NoDevice == "none"
FormatIds == {"f1", "f2"}
MissingId == "fx"
AllIds == FormatIds \cup {MissingId}
Pairs == Devices \X AllIds
Channels == {"chA", "chB"}
NoRow == -1
Unset == "unset"

VARIABLES
  formats,      \* committed rows of table formats: id -> [status, votes]
  votes,        \* committed rows of table votes: <<device_id, format_id>> -> number of rows
  tx,           \* one record per vote request: handler position and uncommitted writes
  sseClients,   \* registry of open event-stream responses
  chan,         \* what has been written to each event-stream response
  broken,       \* responses whose next write throws
  faults,       \* store errors injected so far
  store0,       \* the committed store of the initial state (history)
  pings,        \* heartbeat ticks so far
  adm,          \* the admin delete request: handler position
  life,         \* per response: subscribed / closed / failed a write, and when (history)
  published,    \* the events handed to broadcastVote, in order (history)
  cl            \* one browser client (App.tsx): reducer state, event source, pending votes

rest == <<pings, adm, life, published, cl>>

vars == <<formats, votes, tx, sseClients, chan, broken, faults, store0, pings, adm, life, published, cl>>

\* ------------------------------------------------------------- schema
\* votes INTEGER NOT NULL DEFAULT 0
DefaultVotes == 0

\* A row of table formats (id is the key it is stored under; created_at is left
\* out).  A name is the sequence of its character codes.
FormatRow(name, kind, status, v) == [name |-> name, kind |-> kind, status |-> status, votes |-> v]

\* 'AV1' and 'WAV', two of the names the seed scripts insert
SeedName == [f \in FormatIds |-> IF f = "f1" THEN <<65, 86, 49>> ELSE <<87, 65, 86>>]

IdleTx ==
  [pc |-> "idle", deviceId |-> NoDevice, id |-> MissingId, rowCount |-> NoRow,
   voted |-> Unset, vres |-> NoRow, ins |-> FALSE, del |-> 0, upd |-> FALSE,
   newVotes |-> 0, status |-> 0, body |-> <<>>,
   \* history: the committed store when the handler was entered, whether no other
   \* call has committed since, whether the existence check ran before any commit,
   \* whether another call was in flight during this one, whether a store error hit it
   pre |-> <<>>, quiet |-> TRUE, early |-> FALSE, overlap |-> FALSE, faulted |-> FALSE,
   \* history: whether COMMIT succeeded, and the counter value it made the committed one
   committed |-> FALSE, cv |-> NoRow,
   \* history: the position of this call's event among the published ones
   ev |-> 0]

\* Transactions the store still holds open (BEGIN sent, neither COMMIT nor ROLLBACK done).
InProgress(t) == tx[t].pc \in {"select", "insert", "incr", "delete", "decr", "read", "commit", "catch"}

Active(t) == tx[t].pc \notin {"idle", "done"}

Pair(t) == <<tx[t].deviceId, tx[t].id>>

\* Number of vote rows of format f in a votes table vt (summed over the devices ds).
RECURSIVE SumRows(_, _, _)
SumRows(vt, f, ds) ==
  IF ds = {} THEN 0
  ELSE LET d == CHOOSE x \in ds : TRUE
       IN vt[<<d, f>>] + SumRows(vt, f, ds \ {d})

VoteRows(vt, f) == SumRows(vt, f, Devices)

\* ------------------------------------------------------------- event streams
\* `data: ${JSON.stringify({ id, votes })}\n\n`
Payload(id, v) == [type |-> "data", id |-> id, votes |-> v]

\* Mutant: the heartbeat is written as a data frame.
PingAsData == Payload("f1", 0)

\* ":ping\n\n", an SSE comment line
Ping == [type |-> "comment"]

\* res.write("\n") when the stream is opened
Newline == [type |-> "newline"]

\* A response that has not subscribed yet.
NewLife ==
  [state |-> "new", closed |-> FALSE,
   \* history: how many responses had subscribed up to and including this one,
   \* how many events had been published when it joined and when it left the
   \* registry, which loop removed it, and how many frames it had by then
   ord |-> 0, from |-> 0, to |-> NoRow, by |-> "none", len |-> 0]

\* The admin delete handler before it is entered.
IdleAdmin ==
  [pc |-> "idle", id |-> MissingId, status |-> 0,
   \* history: vote rows removed by its first statement, and by the cascade of its second
   removed |-> 0, cascaded |-> 0,
   \* history of the last catalog request: which one, the name it carried after
   \* trimming, and the formats table it met
   op |-> "none", name |-> <<>>, pre |-> <<>>]

\* No browser client is part of the run.
NoClient == [on |-> FALSE]

\* Members of a sequence.
Range(q) == {q[i] : i \in 1..Len(q)}

\* Set.delete on the insertion-ordered registry.
RECURSIVE SetDelete(_, _)
SetDelete(q, c) ==
  IF q = <<>> THEN <<>>
  ELSE IF Head(q) = c THEN Tail(q)
  ELSE <<Head(q)>> \o SetDelete(Tail(q), c)

\* Set.add on the insertion-ordered registry.
SetAdd(q, c) == IF c \in Range(q) THEN q ELSE Append(q, c)

\* The data events among the frames written to a response.
RECURSIVE DataEvents(_)
DataEvents(q) ==
  IF q = <<>> THEN <<>>
  ELSE IF Head(q).type = "data" THEN <<Head(q)>> \o DataEvents(Tail(q))
  ELSE DataEvents(Tail(q))

\* ------------------------------------------------------------- initial states
\* A store the running program can be in: counters seeded by init_db.sql
\* (0..SeedMax here), vote rows cast on f1 since, and a counter of f1 that is
\* its seed plus its rows or has drifted below that (two racing removals of
\* one row decrement it twice, see CounterEqualsRows).
InitRowSets == {{}, {<<"d1", "f1">>}, {<<"d1", "f1">>, <<"d2", "f1">>}}

Init ==
  /\ \E rows \in InitRowSets :
       \E c \in 0..(SeedMax + Cardinality(rows)) :
         /\ votes = [p \in Pairs |-> IF p \in rows THEN 1 ELSE 0]
         /\ formats = [f \in FormatIds |->
                         FormatRow(SeedName[f], "video", "Requested",
                                   IF f = "f1" THEN c ELSE DefaultVotes)]
  /\ tx = [t \in Tx |-> IdleTx]
  /\ sseClients = <<"chA">>
  /\ chan = [c \in Channels |-> IF c = "chA" THEN <<Newline>> ELSE <<>>]
  /\ life = [c \in Channels |-> IF c = "chA" THEN [NewLife EXCEPT !.state = "open", !.ord = 1] ELSE NewLife]
  /\ published = <<>>
  /\ broken = {}
  /\ faults = 0
  /\ pings = 0
  /\ adm = IdleAdmin
  /\ cl = NoClient
  /\ store0 = [formats |-> formats, votes |-> votes]

\* ------------------------------------------------------------- broadcaster
\* client.write(payload) throws
WriteThrows(c) == c \in broken

\* Mutant: the frame is put in front of what the response already holds.
WrittenFirst(q, payload) == <<payload>> \o q

\* client.write(payload): the frame follows what was written before
Written(q, payload) == Append(q, payload)

\* Mutant: the catch block is empty.
ThrowIgnored(reg, c) == reg

\* catch { sseClients.delete(client) }
OnThrow(reg, c) == SetDelete(reg, c)

\* Mutant: the try/catch wraps the whole loop, so the first throw ends it.
RECURSIVE WriteLoopAborting(_, _, _)
WriteLoopAborting(list, payload, st) ==
  IF list = <<>> THEN st
  ELSE IF WriteThrows(Head(list))
       THEN [st EXCEPT !.reg = OnThrow(st.reg, Head(list))]
       ELSE WriteLoopAborting(Tail(list), payload,
                              [st EXCEPT !.chan[Head(list)] = Written(@, payload)])

\* for (const client of Array.from(sseClients)) { try { client.write(payload) }
\* catch { sseClients.delete(client) } }
RECURSIVE WriteLoop(_, _, _)
WriteLoop(list, payload, st) ==
  IF list = <<>> THEN st
  ELSE IF WriteThrows(Head(list))
       THEN WriteLoop(Tail(list), payload, [st EXCEPT !.reg = OnThrow(st.reg, Head(list))])
       ELSE WriteLoop(Tail(list), payload,
                      [st EXCEPT !.chan[Head(list)] = Written(@, payload)])

\* History: the registered responses whose write throws in this loop have failed.
LifeAfterWrites(kind) ==
  [c \in Channels |->
     IF c \in Range(sseClients) /\ WriteThrows(c) /\ life[c].state = "open"
     THEN [life[c] EXCEPT !.state = "failed", !.to = Len(published), !.by = kind,
                          !.len = Len(chan[c])]
     ELSE life[c]]

\* broadcastVote(id, votes)
BroadcastVote(id, v) ==
  LET st == WriteLoop(sseClients, Payload(id, v), [chan |-> chan, reg |-> sseClients])
  IN /\ chan' = st.chan
     /\ sseClients' = st.reg
     /\ published' = Append(published, Payload(id, v))
     /\ life' = LifeAfterWrites("publish")

\* Mutant: a new subscriber is first sent every event published so far.
ReplayBacklog(c) == <<Newline>> \o published

\* res.write("\n"): all a response holds when it joins the registry
FirstFrames(c) == <<Newline>>

\* GET /api/live: headers, a first newline, then the response joins the registry.
Connect(c) ==
  /\ life[c].state = "new"
  /\ chan' = [chan EXCEPT ![c] = @ \o FirstFrames(c)]
  /\ sseClients' = SetAdd(sseClients, c)
  /\ life' = [life EXCEPT ![c].state = "open", ![c].from = Len(published),
                          ![c].ord = 1 + Cardinality({x \in Channels : life[x].state # "new"})]
  /\ UNCHANGED <<formats, votes, tx, broken, faults, store0, pings, adm, published>>

\* A subscriber other than the modelled client.
Subscribe(c) == Connect(c) /\ UNCHANGED cl

\* The peer of an open stream goes away: writes to it throw from now on.
Break(c) ==
  /\ life[c].state = "open"
  /\ ~life[c].closed
  /\ c \notin broken
  /\ broken' = broken \cup {c}
  /\ UNCHANGED <<formats, votes, tx, sseClients, chan, faults, store0, rest>>

\* Mutant: no close handler is installed.
StaysRegistered(q, c) == q

\* req.on("close", () => sseClients.delete(res))
AfterClose(q, c) == SetDelete(q, c)

Close(c) ==
  /\ life[c].state \in {"open", "failed"}
  /\ ~life[c].closed
  /\ sseClients' = AfterClose(sseClients, c)
  /\ life' = [life EXCEPT ![c].closed = TRUE,
                          ![c].state = IF @ = "open" THEN "closed" ELSE @,
                          ![c].to = IF life[c].state = "open" THEN Len(published) ELSE @,
                          ![c].by = IF life[c].state = "open" THEN "close" ELSE @,
                          ![c].len = IF life[c].state = "open" THEN Len(chan[c]) ELSE @]
  /\ broken' = broken \ {c}
  /\ UNCHANGED <<formats, votes, tx, chan, faults, store0, pings, adm, published, cl>>

\* setInterval(..., 30000): ":ping" to every registered response
Heartbeat ==
  /\ pings < MaxPings
  /\ pings' = pings + 1
  /\ LET st == WriteLoop(sseClients, Ping, [chan |-> chan, reg |-> sseClients])
     IN chan' = st.chan /\ sseClients' = st.reg
  /\ life' = LifeAfterWrites("ping")
  /\ UNCHANGED <<formats, votes, tx, broken, faults, store0, adm, published, cl>>

\* ------------------------------------------------------------- store rules
\* Another transaction in progress holds an uncommitted INSERT of the same key.
InsertPending(t) ==
  \E u \in Tx \ {t} : InProgress(u) /\ tx[u].ins /\ Pair(u) = Pair(t)

\* Another transaction in progress holds the row lock of an uncommitted DELETE of the key.
DeletePending(t) ==
  \E u \in Tx \ {t} : InProgress(u) /\ tx[u].del > 0 /\ Pair(u) = Pair(t)

\* Mutant: an INSERT that does not wait for an in-progress writer of its key.
InsertNeverWaits(t) == FALSE

\* PRIMARY KEY (device_id, format_id): the INSERT waits for an in-progress
\* writer of the same key and fails when a committed row has the key.
InsertWaits(t) == InsertPending(t) \/ DeletePending(t)

\* Mutant: a votes table without the composite primary key.
NoPrimaryKey(t) == FALSE

UniqueViolation(t) == votes[Pair(t)] > 0

\* Mutant: a votes table without the foreign key to formats.
NoForeignKey(t) == FALSE

\* format_id REFERENCES formats(id)
ForeignKeyViolation(t) == tx[t].id \notin DOMAIN formats

\* Mutant: a counter update that takes no row lock (read, then write back).
NoRowLock(t) == FALSE

\* Mutant: the counter update waits for every transaction in progress on the
\* format, whether it holds the row lock or not.
WaitsForEveryone(t) ==
  \E u \in Tx \ {t} : InProgress(u) /\ tx[u].id = tx[t].id

\* Row lock of UPDATE formats ... WHERE id = f held by another transaction in progress.
FormatLocked(t) ==
  \E u \in Tx \ {t} : InProgress(u) /\ tx[u].upd /\ tx[u].id = tx[t].id

\* Mutant: the insert branch forgets the increment.
NotIncremented(v) == v

\* votes = votes + 1
Incremented(v) == v + 1

\* Mutant: votes = votes - 1, without GREATEST.
Unclamped(v) == v - 1

\* votes = GREATEST(votes - 1, 0)
Decremented(v) == IF v - 1 > 0 THEN v - 1 ELSE 0

\* Number(vres.rows[0].votes || 0), or 0 without a row
ResponseVotes(r) == IF r = NoRow THEN 0 ELSE IF r = 0 THEN 0 ELSE r

\* ------------------------------------------------------------- POST /api/formats/:id/vote
\* Mutant: the handler goes on without a deviceId.
DeviceIdNotChecked(d) == FALSE

\* if (!deviceId)
MissingDeviceId(d) == d = NoDevice

\* The handler is entered; a missing deviceId is answered 400 at once.
Enter(t, d, f) ==
  /\ tx[t].pc = "idle"
  /\ \A u \in Tx : u < t => tx[u].pc # "idle"
  /\ LET others == {u \in Tx \ {t} : Active(u)}
         me == IF MissingDeviceId(d)
               THEN [IdleTx EXCEPT !.pc = "done", !.id = f, !.status = 400,
                                   !.body = <<"missing_deviceId">>,
                                   !.pre = [formats |-> formats, votes |-> votes]]
               ELSE [IdleTx EXCEPT !.pc = "begin", !.deviceId = d, !.id = f,
                                   !.pre = [formats |-> formats, votes |-> votes],
                                   !.overlap = (others # {})]
     IN tx' = [u \in Tx |->
                 IF u = t THEN me
                 ELSE IF u \in others /\ ~MissingDeviceId(d)
                      THEN [tx[u] EXCEPT !.overlap = TRUE]
                      ELSE tx[u]]
  /\ UNCHANGED <<formats, votes, sseClients, chan, broken, faults, store0, pings, adm, life,
                 published>>

\* A vote request sent by anything but the modelled client.
Request(t, d, f) == Enter(t, d, f) /\ UNCHANGED cl

\* pool.connect() and BEGIN
Begin(t) ==
  /\ tx[t].pc = "begin"
  /\ tx' = [tx EXCEPT ![t].pc = "select"]
  /\ UNCHANGED <<formats, votes, sseClients, chan, broken, faults, store0, rest>>

\* SELECT 1 FROM votes WHERE device_id = $1 AND format_id = $2
Select(t) ==
  /\ tx[t].pc = "select"
  /\ LET n == votes[Pair(t)]
         committed == \E u \in Tx : tx[u].pc = "respond" \/ (tx[u].pc = "done" /\ tx[u].status = 200)
     IN tx' = [tx EXCEPT ![t].rowCount = n,
                         ![t].early = ~committed,
                         ![t].pc = IF n = 0 THEN "insert" ELSE "delete"]
  /\ UNCHANGED <<formats, votes, sseClients, chan, broken, faults, store0, rest>>

\* INSERT INTO votes (device_id, format_id) VALUES ($1, $2)
Insert(t) ==
  /\ tx[t].pc = "insert"
  /\ ~InsertWaits(t)
  /\ IF UniqueViolation(t) \/ ForeignKeyViolation(t)
     THEN tx' = [tx EXCEPT ![t].pc = "catch"]
     ELSE tx' = [tx EXCEPT ![t].ins = TRUE, ![t].pc = "incr"]
  /\ UNCHANGED <<formats, votes, sseClients, chan, broken, faults, store0, rest>>

\* The pending new value of the counter after UPDATE formats SET votes = e(votes).
UpdateVotes(t, new) ==
  IF tx[t].id \in DOMAIN formats
  THEN [tx EXCEPT ![t].upd = TRUE, ![t].newVotes = new, ![t].pc = "read"]
  ELSE [tx EXCEPT ![t].pc = "read"]

CurrentVotes(t) ==
  IF tx[t].id \in DOMAIN formats THEN formats[tx[t].id].votes ELSE NoRow

\* UPDATE formats SET votes = votes + 1 WHERE id = $1
Incr(t) ==
  /\ tx[t].pc = "incr"
  /\ ~FormatLocked(t)
  /\ tx' = UpdateVotes(t, Incremented(CurrentVotes(t)))
  /\ UNCHANGED <<formats, votes, sseClients, chan, broken, faults, store0, rest>>

\* DELETE FROM votes WHERE device_id = $1 AND format_id = $2
Delete(t) ==
  /\ tx[t].pc = "delete"
  /\ ~DeletePending(t)
  /\ tx' = [tx EXCEPT ![t].del = votes[Pair(t)], ![t].pc = "decr"]
  /\ UNCHANGED <<formats, votes, sseClients, chan, broken, faults, store0, rest>>

\* UPDATE formats SET votes = GREATEST(votes - 1, 0) WHERE id = $1
Decr(t) ==
  /\ tx[t].pc = "decr"
  /\ ~FormatLocked(t)
  /\ tx' = UpdateVotes(t, Decremented(CurrentVotes(t)))
  /\ UNCHANGED <<formats, votes, sseClients, chan, broken, faults, store0, rest>>

\* Mutant: the read goes through the pool, outside the transaction.
ReadOutsideTransaction(t) == CurrentVotes(t)

\* What the transaction's SELECT sees: its own update, else the committed row.
ReadVotes(t) == IF tx[t].upd THEN tx[t].newVotes ELSE CurrentVotes(t)

\* SELECT votes FROM formats WHERE id = $1
Read(t) ==
  /\ tx[t].pc = "read"
  /\ tx' = [tx EXCEPT ![t].vres = ReadVotes(t),
                      ![t].voted = (tx[t].rowCount = 0),
                      ![t].pc = "commit"]
  /\ UNCHANGED <<formats, votes, sseClients, chan, broken, faults, store0, rest>>

\* The committed tables after transaction t's writes are applied.
CommittedVotes(t) ==
  [votes EXCEPT ![Pair(t)] = @ + (IF tx[t].ins THEN 1 ELSE 0) - tx[t].del]

CommittedFormats(t) ==
  IF tx[t].upd THEN [formats EXCEPT ![tx[t].id].votes = tx[t].newVotes] ELSE formats

\* Mutant: the catch block releases the connection without ROLLBACK, and the
\* open transaction's writes are committed by the connection's next user.
NotRolledBack(t) == [formats |-> CommittedFormats(t), votes |-> CommittedVotes(t)]

\* The committed tables after ROLLBACK of transaction t.
RolledBack(t) == [formats |-> formats, votes |-> votes]

\* COMMIT
Commit(t) ==
  /\ tx[t].pc = "commit"
  /\ votes' = CommittedVotes(t)
  /\ formats' = CommittedFormats(t)
  /\ tx' = [u \in Tx |->
              IF u = t
              THEN [tx[t] EXCEPT !.ins = FALSE, !.del = 0, !.upd = FALSE, !.pc = "respond",
                                 !.committed = TRUE,
                                 !.cv = IF tx[t].id \in DOMAIN formats
                                        THEN CommittedFormats(t)[tx[t].id].votes
                                        ELSE NoRow]
              ELSE IF tx[u].pc # "idle" THEN [tx[u] EXCEPT !.quiet = FALSE] ELSE tx[u]]
  /\ UNCHANGED <<sseClients, chan, broken, faults, store0, rest>>

\* broadcastVote(id, votes); res.json({ voted, votes })
Respond(t) ==
  /\ tx[t].pc = "respond"
  /\ LET v == ResponseVotes(tx[t].vres)
     IN /\ BroadcastVote(tx[t].id, v)
        /\ tx' = [tx EXCEPT ![t].status = 200, ![t].body = <<tx[t].voted, v>>, ![t].pc = "done",
                           ![t].ev = Len(published) + 1]
  /\ UNCHANGED <<formats, votes, broken, faults, store0, pings, adm, cl>>

\* A store call rejects (connection lost, statement error): control passes to catch.
Fault(t) ==
  /\ tx[t].pc \in {"begin", "select", "insert", "incr", "delete", "decr", "read", "commit"}
  /\ faults < MaxFaults
  /\ faults' = faults + 1
  /\ tx' = [tx EXCEPT ![t].pc = "catch", ![t].faulted = TRUE]
  /\ UNCHANGED <<formats, votes, sseClients, chan, broken, store0, rest>>

\* Mutant: the publish sits in finally, so it also runs after a rollback.
PublishInFinally(t) == BroadcastVote(tx[t].id, ResponseVotes(tx[t].vres))

\* The catch and finally blocks publish nothing.
CatchPublish(t) == UNCHANGED <<sseClients, chan, life, published>>

\* catch: ROLLBACK, sendError(res, 500, "db_error"); finally release
Catch(t) ==
  /\ tx[t].pc = "catch"
  /\ formats' = RolledBack(t).formats
  /\ votes' = RolledBack(t).votes
  /\ tx' = [tx EXCEPT ![t].ins = FALSE, ![t].del = 0, ![t].upd = FALSE,
                      ![t].status = 500, ![t].body = <<"db_error">>, ![t].pc = "done"]
  /\ CatchPublish(t)
  /\ UNCHANGED <<broken, faults, store0, pings, adm, cl>>

Next ==
  \/ \E t \in Tx, d \in Devices \cup {NoDevice}, f \in AllIds : Request(t, d, f)
  \/ \E t \in Tx : Begin(t)
  \/ \E t \in Tx : Select(t)
  \/ \E t \in Tx : Insert(t)
  \/ \E t \in Tx : Incr(t)
  \/ \E t \in Tx : Delete(t)
  \/ \E t \in Tx : Decr(t)
  \/ \E t \in Tx : Read(t)
  \/ \E t \in Tx : Commit(t)
  \/ \E t \in Tx : Respond(t)
  \/ \E t \in Tx : Fault(t)
  \/ \E t \in Tx : Catch(t)

Spec == Init /\ [][Next]_vars

\* One step of the handler of request t: each await resolves in the end, so a
\* statement that can run is run, and a handler that can continue continues.
Step(t) ==
  \/ Begin(t) \/ Select(t) \/ Insert(t) \/ Incr(t) \/ Delete(t) \/ Decr(t)
  \/ Read(t) \/ Commit(t) \/ Respond(t) \/ Catch(t)

\* The vote handler over a store that keeps responding.
SpecFair == Init /\ [][Next]_vars /\ \A t \in Tx : WF_vars(Step(t))

\* ------------------------------------------------------------- live streams
\* The server with no subscriber yet and one vote row on f1: responses
\* subscribe, break and close while votes are toggled and the heartbeat ticks.
InitLive ==
  /\ votes = [p \in Pairs |-> IF p = <<"d1", "f1">> THEN 1 ELSE 0]
  /\ formats = [f \in FormatIds |->
                  FormatRow(SeedName[f], "video", "Requested",
                            IF f = "f1" THEN 1 ELSE DefaultVotes)]
  /\ tx = [t \in Tx |-> IdleTx]
  /\ sseClients = <<>>
  /\ chan = [c \in Channels |-> <<>>]
  /\ life = [c \in Channels |-> NewLife]
  /\ published = <<>>
  /\ broken = {}
  /\ faults = 0
  /\ pings = 0
  /\ adm = IdleAdmin
  /\ cl = NoClient
  /\ store0 = [formats |-> formats, votes |-> votes]

NextLive ==
  \/ \E t \in Tx, d \in Devices : Request(t, d, "f1")
  \/ \E t \in Tx : Begin(t)
  \/ \E t \in Tx : Select(t)
  \/ \E t \in Tx : Insert(t)
  \/ \E t \in Tx : Incr(t)
  \/ \E t \in Tx : Delete(t)
  \/ \E t \in Tx : Decr(t)
  \/ \E t \in Tx : Read(t)
  \/ \E t \in Tx : Commit(t)
  \/ \E t \in Tx : Respond(t)
  \/ \E t \in Tx : Catch(t)
  \/ \E c \in Channels : Subscribe(c)
  \/ \E c \in Channels : Break(c)
  \/ \E c \in Channels : Close(c)
  \/ Heartbeat

SpecLive == InitLive /\ [][NextLive]_vars

TypeOK ==
  /\ DOMAIN formats = FormatIds
  /\ \A p \in Pairs : votes[p] \in Nat
  /\ faults \in 0..MaxFaults

\* ------------------------------------------------------------- admin delete
\* DELETE FROM votes WHERE format_id = $1
VoteRowsDeleted(vt, f) == [p \in Pairs |-> IF p[2] = f THEN 0 ELSE vt[p]]

\* Mutant: a foreign key without ON DELETE CASCADE that lets the parent go.
NoCascade(vt, f) == vt

\* format_id REFERENCES formats(id) ON DELETE CASCADE
Cascade(vt, f) == VoteRowsDeleted(vt, f)

\* DELETE FROM formats WHERE id = $1
FormatRowDeleted(fm, f) == [x \in DOMAIN fm \ {f} |-> fm[x]]

\* A transaction in progress holds the row lock of a vote row of f it has deleted.
VoteRowsLocked(f) ==
  \E t \in Tx : InProgress(t) /\ tx[t].del > 0 /\ tx[t].id = f

\* A transaction in progress holds a lock on the formats row of f: the key
\* share lock of its uncommitted vote row, or the lock of its counter update.
FormatRowLocked(f) ==
  \E t \in Tx : InProgress(t) /\ (tx[t].ins \/ tx[t].upd) /\ tx[t].id = f

\* History: a statement of the admin handler committed under the calls in flight.
Disturbed == [t \in Tx |-> IF tx[t].pc # "idle" THEN [tx[t] EXCEPT !.quiet = FALSE] ELSE tx[t]]

\* DELETE /api/formats/:id is entered (after the admin check)
AdminRequest(f) ==
  /\ adm.pc = "idle"
  /\ adm' = [adm EXCEPT !.pc = "delVotes", !.id = f]
  /\ UNCHANGED <<formats, votes, tx, sseClients, chan, broken, faults, store0, pings, life, published, cl>>

\* await pool.query("DELETE FROM votes WHERE format_id = $1"): its own transaction
AdminDeleteVotes ==
  /\ adm.pc = "delVotes"
  /\ ~VoteRowsLocked(adm.id)
  /\ votes' = VoteRowsDeleted(votes, adm.id)
  /\ adm' = [adm EXCEPT !.pc = "delFormat", !.removed = VoteRows(votes, adm.id)]
  /\ tx' = Disturbed
  /\ UNCHANGED <<formats, sseClients, chan, broken, faults, store0, pings, life, published, cl>>

\* await pool.query("DELETE FROM formats WHERE id = $1"): its own transaction;
\* res.json({ ok: true })
AdminDeleteFormat ==
  /\ adm.pc = "delFormat"
  /\ ~FormatRowLocked(adm.id)
  /\ ~VoteRowsLocked(adm.id)
  /\ formats' = FormatRowDeleted(formats, adm.id)
  /\ votes' = IF adm.id \in DOMAIN formats THEN Cascade(votes, adm.id) ELSE votes
  /\ adm' = [adm EXCEPT !.pc = "done", !.status = 200,
                         !.cascaded = IF adm.id \in DOMAIN formats
                                      THEN VoteRows(votes, adm.id) ELSE 0]
  /\ tx' = Disturbed
  /\ UNCHANGED <<sseClients, chan, broken, faults, store0, pings, life, published, cl>>

\* One of the two queries rejects: catch, sendError(res, 500, "db_error").
\* What an earlier statement committed stays committed.
AdminFault ==
  /\ adm.pc \in {"delVotes", "delFormat"}
  /\ faults < MaxFaults
  /\ faults' = faults + 1
  /\ adm' = [adm EXCEPT !.pc = "done", !.status = 500]
  /\ UNCHANGED <<formats, votes, tx, sseClients, chan, broken, store0, pings, life, published, cl>>

\* GET /api/votes/:deviceId: SELECT format_id FROM votes WHERE device_id = $1
VotesByDevice(d) == {f \in AllIds : votes[<<d, f>>] > 0}

\* A store with one vote on f1 and one subscriber; votes on f1 are toggled
\* while an administrator deletes a format.
InitAdmin ==
  /\ votes = [p \in Pairs |-> IF p = <<"d1", "f1">> THEN 1 ELSE 0]
  /\ formats = [f \in FormatIds |->
                  FormatRow(SeedName[f], "video", "Requested",
                            IF f = "f1" THEN 1 ELSE DefaultVotes)]
  /\ tx = [t \in Tx |-> IdleTx]
  /\ sseClients = <<"chA">>
  /\ chan = [c \in Channels |-> IF c = "chA" THEN <<Newline>> ELSE <<>>]
  /\ life = [c \in Channels |-> IF c = "chA" THEN [NewLife EXCEPT !.state = "open", !.ord = 1] ELSE NewLife]
  /\ published = <<>>
  /\ broken = {}
  /\ faults = 0
  /\ pings = 0
  /\ adm = IdleAdmin
  /\ cl = NoClient
  /\ store0 = [formats |-> formats, votes |-> votes]

NextAdmin ==
  \/ \E t \in Tx, d \in Devices : Request(t, d, "f1")
  \/ \E t \in Tx : Begin(t)
  \/ \E t \in Tx : Select(t)
  \/ \E t \in Tx : Insert(t)
  \/ \E t \in Tx : Incr(t)
  \/ \E t \in Tx : Delete(t)
  \/ \E t \in Tx : Decr(t)
  \/ \E t \in Tx : Read(t)
  \/ \E t \in Tx : Commit(t)
  \/ \E t \in Tx : Respond(t)
  \/ \E t \in Tx : Catch(t)
  \/ \E f \in FormatIds : AdminRequest(f)
  \/ AdminDeleteVotes
  \/ AdminDeleteFormat
  \/ AdminFault

SpecAdmin == InitAdmin /\ [][NextAdmin]_vars

\* ------------------------------------------------------------- catalog
\* The four statuses the product knows.
Statuses == {"Requested", "Planned", "Supported", "In Review"}

\* lower() on one character code
LowerChar(c) == IF c \in 65..90 THEN c + 32 ELSE c

\* lower(name)
Lower(name) == [i \in 1..Len(name) |-> LowerChar(name[i])]

\* String.prototype.trim(), for the blank
RECURSIVE TrimStart(_)
TrimStart(n) == IF n # <<>> /\ Head(n) = 32 THEN TrimStart(Tail(n)) ELSE n

RECURSIVE TrimEnd(_)
TrimEnd(n) ==
  IF n # <<>> /\ n[Len(n)] = 32 THEN TrimEnd(SubSeq(n, 1, Len(n) - 1)) ELSE n

Trim(n) == TrimEnd(TrimStart(n))

\* Mutant: a formats table without the unique index on lower(name).
NoUniqueIndex(fm, name) == FALSE

\* CREATE UNIQUE INDEX ux_formats_name_lower ON formats (lower(name)): a row
\* with the same name up to case is there already
NameTaken(fm, name) == \E f \in DOMAIN fm : Lower(fm[f].name) = Lower(name)

\* gen_random_uuid(): an id no row has
FreshIds(fm) == AllIds \ DOMAIN fm

\* fm and one more row under id
WithRow(fm, id, row) == [f \in DOMAIN fm \cup {id} |-> IF f = id THEN row ELSE fm[f]]

\* The rows of the seed INSERT kept here: ('AV1', 'video', 'Requested') and
\* ('WAV', 'audio', 'Planned').
SeedRows == << <<SeedName["f1"], "video", "Requested">>, <<SeedName["f2"], "audio", "Planned">> >>

\* INSERT INTO formats ... VALUES ... ON CONFLICT (lower(name)) DO NOTHING:
\* row after row, a row whose name is taken is skipped; vs gives each row's
\* (floor(random()*8))::int
RECURSIVE SeedInsert(_, _, _)
SeedInsert(fm, i, vs) ==
  IF i > Len(SeedRows) THEN fm
  ELSE IF NameTaken(fm, SeedRows[i][1]) \/ FreshIds(fm) = {}
       THEN SeedInsert(fm, i + 1, vs)
       ELSE SeedInsert(WithRow(fm, CHOOSE id \in FreshIds(fm) : TRUE,
                               FormatRow(SeedRows[i][1], SeedRows[i][2], SeedRows[i][3], vs[i])),
                       i + 1, vs)

\* psql -f init_db.sql / seed_db.sql: the seed INSERT, as one statement
Seed ==
  /\ \E vs \in [1..Len(SeedRows) -> 0..SeedMax] :
       /\ formats' = SeedInsert(formats, 1, vs)
       /\ adm' = [IdleAdmin EXCEPT !.pc = "done", !.op = "seed", !.pre = formats]
  /\ UNCHANGED <<votes, tx, sseClients, chan, broken, faults, store0, pings, life, published, cl>>

\* What the admin types: '', ' ', 'AV1', ' Av1 ', 'Ogg'
NameInputs ==
  {<<>>, <<32>>, <<65, 86, 49>>, <<32, 65, 118, 49, 32>>, <<79, 103, 103>>}

KindInputs == {"", "audio"}

\* a status field as it may arrive: two of the four, one that is none of them, none
StatusInputs == {"Requested", "In Review", "Bogus", ""}

\* POST /api/formats (admin): 400 on a missing field, else one INSERT; the
\* unique index rejects a taken name and the handler answers 500
CreateFormat(n, k, s) ==
  LET name == Trim(n)
      met == [IdleAdmin EXCEPT !.pc = "done", !.op = "create", !.name = name, !.pre = formats]
  IN /\ IF name = <<>> \/ k = "" \/ s = ""
        THEN /\ adm' = [met EXCEPT !.status = 400]
             /\ UNCHANGED formats
        ELSE IF NameTaken(formats, name)
        THEN /\ adm' = [met EXCEPT !.status = 500]
             /\ UNCHANGED formats
        ELSE /\ FreshIds(formats) # {}
             /\ \E id \in FreshIds(formats) :
                  /\ formats' = WithRow(formats, id, FormatRow(name, k, s, DefaultVotes))
                  /\ adm' = [met EXCEPT !.status = 201, !.id = id]
     /\ UNCHANGED <<votes, tx, sseClients, chan, broken, faults, store0, pings, life, published,
                    cl>>

\* Mutant: the status update also puts the counter back to its default.
StatusResetsVotes(fm, id, s) == [fm EXCEPT ![id].status = s, ![id].votes = DefaultVotes]

\* UPDATE formats SET status = $1 WHERE id = $2
WithStatus(fm, id, s) == [fm EXCEPT ![id].status = s]

\* The UPDATE waits for a transaction in progress that holds the row's lock.
StatusWaits(id) ==
  \E t \in Tx : InProgress(t) /\ tx[t].upd /\ tx[t].id = id

\* PUT /api/formats/:id/status (admin): 400 without a status, 404 when no row
\* has the id, else UPDATE formats SET status = $1 WHERE id = $2
UpdateStatus(id, s) ==
  LET met == [IdleAdmin EXCEPT !.pc = "done", !.op = "status", !.id = id, !.pre = formats]
  IN /\ IF s = ""
        THEN /\ adm' = [met EXCEPT !.status = 400]
             /\ UNCHANGED formats
        ELSE IF id \notin DOMAIN formats
        THEN /\ adm' = [met EXCEPT !.status = 404]
             /\ UNCHANGED formats
        ELSE /\ ~StatusWaits(id)
             /\ formats' = WithStatus(formats, id, s)
             /\ adm' = [met EXCEPT !.status = 200]
     /\ UNCHANGED <<votes, tx, sseClients, chan, broken, faults, store0, pings, life, published,
                    cl>>

\* The database after the CREATE TABLE statements of init_db.sql.
InitCatalog ==
  /\ formats = <<>>
  /\ votes = [p \in Pairs |-> 0]
  /\ tx = [t \in Tx |-> IdleTx]
  /\ sseClients = <<>>
  /\ chan = [c \in Channels |-> <<>>]
  /\ life = [c \in Channels |-> NewLife]
  /\ published = <<>>
  /\ broken = {}
  /\ faults = 0
  /\ pings = 0
  /\ adm = IdleAdmin
  /\ cl = NoClient
  /\ store0 = [formats |-> formats, votes |-> votes]

NextCatalog ==
  \/ Seed
  \/ \E n \in NameInputs, k \in KindInputs, s \in StatusInputs : CreateFormat(n, k, s)
  \/ \E id \in AllIds, s \in StatusInputs : UpdateStatus(id, s)

SpecCatalog == InitCatalog /\ [][NextCatalog]_vars

\* ------------------------------------------------------------- store
\* The admin handler is between the two statements of a delete.
AdminBusy == adm.pc \in {"delVotes", "delFormat"}

\* A store with a vote on each format: votes on f1 are toggled while an
\* administrator, one request at a time, creates a format, sets statuses and
\* deletes f2.
InitStore ==
  /\ votes = [p \in Pairs |-> IF p \in {<<"d1", "f1">>, <<"d2", "f2">>} THEN 1 ELSE 0]
  /\ formats = [f \in FormatIds |-> FormatRow(SeedName[f], "video", "Requested", 1)]
  /\ tx = [t \in Tx |-> IdleTx]
  /\ sseClients = <<"chA">>
  /\ chan = [c \in Channels |-> IF c = "chA" THEN <<Newline>> ELSE <<>>]
  /\ life = [c \in Channels |-> IF c = "chA" THEN [NewLife EXCEPT !.state = "open", !.ord = 1] ELSE NewLife]
  /\ published = <<>>
  /\ broken = {}
  /\ faults = 0
  /\ pings = 0
  /\ adm = IdleAdmin
  /\ cl = NoClient
  /\ store0 = [formats |-> formats, votes |-> votes]

NextStore ==
  \/ \E t \in Tx, d \in Devices : Request(t, d, "f1")
  \/ \E t \in Tx : Begin(t)
  \/ \E t \in Tx : Select(t)
  \/ \E t \in Tx : Insert(t)
  \/ \E t \in Tx : Incr(t)
  \/ \E t \in Tx : Delete(t)
  \/ \E t \in Tx : Decr(t)
  \/ \E t \in Tx : Read(t)
  \/ \E t \in Tx : Commit(t)
  \/ \E t \in Tx : Respond(t)
  \/ \E t \in Tx : Catch(t)
  \/ AdminRequest("f2")
  \/ AdminDeleteVotes
  \/ AdminDeleteFormat
  \/ ~AdminBusy /\ CreateFormat(<<79, 103, 103>>, "audio", "Requested")
  \/ ~AdminBusy /\ UpdateStatus("f1", "Planned")

SpecStore == InitStore /\ [][NextStore]_vars

\* ------------------------------------------------------------- client
\* The device the modelled browser votes as, and the device of everyone else.
Me == "d1"
Other == "d2"

\* A vote click that has sent nothing.
NoCall == [state |-> "none"]

\* What the reducer works on: the collection of rows (by id) and the set of
\* formats this device has voted for.
View(c) == [rows |-> c.rows, votes |-> c.votes]

\* reducer, case "voteToggle": counter delta and flipped membership
VoteToggle(st, id) ==
  [rows |-> [f \in DOMAIN st.rows |->
               IF f = id
               THEN [st.rows[f] EXCEPT !.votes = @ + (IF id \in st.votes THEN -1 ELSE 1)]
               ELSE st.rows[f]],
   votes |-> IF id \in st.votes THEN st.votes \ {id} ELSE st.votes \cup {id}]

\* Mutant: the event also marks the format as voted for.
VoteUpdateMarks(st, id, v) ==
  [rows |-> [f \in DOMAIN st.rows |->
               IF f = id THEN [st.rows[f] EXCEPT !.votes = v] ELSE st.rows[f]],
   votes |-> st.votes \cup {id}]

\* reducer, case "voteUpdate"
VoteUpdate(st, id, v) ==
  [rows |-> [f \in DOMAIN st.rows |->
               IF f = id THEN [st.rows[f] EXCEPT !.votes = v] ELSE st.rows[f]],
   votes |-> st.votes]

\* reducer, case "setRows"
SetRows(st, rows, vs) == [rows |-> rows, votes |-> vs]

\* Mutant: every row of the collection can be voted for.
AnyRowVotable(rows, id) == id \in DOMAIN rows

\* onVote: const target = state.rows.find(...);
\* if (!target || target.status !== "Requested") return
Votable(rows, id) == id \in DOMAIN rows /\ rows[id].status = "Requested"

\* Mutant: the response is not read; the click's own guess is applied.
ReconciledByGuess(snap, id, body) == VoteToggle(snap, id)

\* onVote after res.json(): the rows and the membership the click saw, with
\* this format's counter and membership taken from the body, through setRows
Reconciled(snap, id, body) ==
  SetRows(snap,
          [f \in DOMAIN snap.rows |->
             IF f = id THEN [snap.rows[f] EXCEPT !.votes = body[2]] ELSE snap.rows[f]],
          IF body[1] THEN snap.votes \cup {id} ELSE snap.votes \ {id})

\* Mutant: a request that failed is answered by the click's own guess.
FailureGuessed(c, t) == VoteToggle(View(c), c.calls[t].id)

\* if (!res.ok) { console.warn(...); return } and catch (err) { console.error(...) }:
\* nothing is dispatched and nothing is saved
Failed(c, t) == View(c)

\* saveLocalRows(rows): the copy of the rows kept in localStorage
SaveLocalRows(sv, rows) == [sv EXCEPT !.rows = rows]

\* setVotesSet(votes): the copy of the voted set kept in localStorage
SetVotesSet(sv, vs) == [sv EXCEPT !.votes = vs]

\* A vote click, onVote(id): nothing happens for a row that is not votable;
\* else the request is sent, and what the handler sees of the state after
\* its await is what it saw at the click.  No action is dispatched here.
Click(t, id) ==
  /\ cl.on
  /\ cl.clicks < MaxClicks
  /\ tx[t].pc = "idle"
  /\ \A u \in Tx : u < t => tx[u].pc # "idle"
  /\ IF Votable(cl.rows, id)
     THEN /\ Enter(t, Me, id)
          /\ cl' = [cl EXCEPT !.clicks = @ + 1, !.lastClick = id,
                              !.calls[t] = [state |-> "sent", id |-> id, rows |-> cl.rows,
                                            votes |-> cl.votes, seen |-> cl.seen]]
     ELSE /\ cl' = [cl EXCEPT !.clicks = @ + 1, !.lastClick = id, !.blocked = @ + 1]
          /\ UNCHANGED <<tx, pings, adm, life, published>>
  /\ UNCHANGED <<formats, votes, sseClients, chan, broken, faults, store0>>

\* The fetch of a click resolves: !res.ok returns, else the body is reconciled.
HandleResponse(t) ==
  /\ cl.on
  /\ cl.calls[t].state = "sent"
  /\ tx[t].pc = "done"
  /\ LET ok == tx[t].status = 200
         st == IF ok
               THEN Reconciled(cl.calls[t], cl.calls[t].id, tx[t].body)
               ELSE Failed(cl, t)
     IN cl' = [cl EXCEPT !.rows = st.rows, !.votes = st.votes,
                         !.saved = IF ok THEN SetVotesSet(SaveLocalRows(@, st.rows), st.votes)
                                   ELSE @,
                         !.calls[t].state = "handled"]
  /\ UNCHANGED <<formats, votes, tx, sseClients, chan, broken, faults, store0, pings, adm, life,
                 published>>

\* The fetch of a click rejects (the network failed): the catch block logs it.
\* The request may have reached the server all the same.
NetworkError(t) ==
  /\ cl.on
  /\ cl.calls[t].state = "sent"
  /\ LET st == Failed(cl, t)
     IN cl' = [cl EXCEPT !.rows = st.rows, !.votes = st.votes, !.calls[t].state = "failed"]
  /\ UNCHANGED <<formats, votes, tx, sseClients, chan, broken, faults, store0, pings, adm, life,
                 published>>

\* The event source hands over the next frame of its stream: onmessage for a
\* data frame, nothing for a comment or an empty line.
HandleEvent ==
  /\ cl.on
  /\ cl.seen < Len(chan[cl.es])
  /\ LET fr == chan[cl.es][cl.seen + 1]
         st == IF fr.type = "data" THEN VoteUpdate(View(cl), fr.id, fr.votes) ELSE View(cl)
     IN cl' = [cl EXCEPT !.rows = st.rows, !.votes = st.votes, !.seen = @ + 1,
                         !.saved = IF fr.type = "data" THEN SaveLocalRows(@, st.rows) ELSE @]
  /\ UNCHANGED <<formats, votes, tx, sseClients, chan, broken, faults, store0, pings, adm, life,
                 published>>

\* The connection of the event source is lost.
Drop == Close(cl.es)

\* The event source connects again by itself, with a new GET /api/live; the
\* frames of the lost connection it had not handed over are gone.
Reconnect ==
  /\ cl.on
  /\ life[cl.es].closed
  /\ \E c \in Channels :
       /\ Connect(c)
       /\ cl' = [cl EXCEPT !.es = c, !.seen = 0, !.reconnects = @ + 1]

\* A vote request of another device, for any format of the store.
OtherRequest(t, f) == Request(t, Other, f)

\* A page that has mounted: its event source is connected, and the catalog and
\* this device's votes have been fetched; f2, which is Planned, may have been
\* created after the fetch.
InitClient ==
  /\ \E mine \in {{}, {<<Me, "f1">>}} :
       /\ votes = [p \in Pairs |-> IF p \in mine THEN 1 ELSE 0]
       /\ formats = [f \in FormatIds |->
                       IF f = "f1"
                       THEN FormatRow(SeedName[f], "video", "Requested", Cardinality(mine))
                       ELSE FormatRow(SeedName[f], "audio", "Planned", DefaultVotes)]
       /\ \E known \in {{"f1"}, FormatIds} :
            cl = [on |-> TRUE,
                  rows |-> [f \in known |-> formats[f]],
                  votes |-> {p[2] : p \in mine},
                  \* localStorage after the fetch at mount went through setRows
                  saved |-> [rows |-> [f \in known |-> formats[f]],
                             votes |-> {p[2] : p \in mine}],
                  es |-> "chA", seen |-> 0,
                  calls |-> [t \in Tx |-> NoCall],
                  \* history: clicks so far, those that sent nothing, the id
                  \* of the last one, reconnections so far
                  clicks |-> 0, blocked |-> 0, lastClick |-> MissingId, reconnects |-> 0]
  /\ tx = [t \in Tx |-> IdleTx]
  /\ sseClients = <<"chA">>
  /\ chan = [c \in Channels |-> IF c = "chA" THEN <<Newline>> ELSE <<>>]
  /\ life = [c \in Channels |-> IF c = "chA" THEN [NewLife EXCEPT !.state = "open", !.ord = 1] ELSE NewLife]
  /\ published = <<>>
  /\ broken = {}
  /\ faults = 0
  /\ pings = 0
  /\ adm = IdleAdmin
  /\ store0 = [formats |-> formats, votes |-> votes]

NextClient ==
  \/ \E t \in Tx, id \in AllIds : Click(t, id)
  \/ \E t \in Tx : HandleResponse(t)
  \/ HandleEvent
  \/ Drop
  \/ Reconnect
  \/ \E t \in Tx, f \in FormatIds : OtherRequest(t, f)
  \/ \E t \in Tx : Begin(t)
  \/ \E t \in Tx : Select(t)
  \/ \E t \in Tx : Insert(t)
  \/ \E t \in Tx : Incr(t)
  \/ \E t \in Tx : Delete(t)
  \/ \E t \in Tx : Decr(t)
  \/ \E t \in Tx : Read(t)
  \/ \E t \in Tx : Commit(t)
  \/ \E t \in Tx : Respond(t)
  \/ \E t \in Tx : Catch(t)

SpecClient == InitClient /\ [][NextClient]_vars

\* ------------------------------------------------------------- page
\* A page that has mounted with two formats that can be voted for, while the
\* server sends heartbeats and another device votes for the second format.
InitPage ==
  /\ \E mine \in {{}, {<<Me, "f1">>}} :
       /\ votes = [p \in Pairs |-> IF p \in mine THEN 1 ELSE 0]
       /\ formats = [f \in FormatIds |->
                       FormatRow(SeedName[f], "video", "Requested",
                                 IF f = "f1" THEN Cardinality(mine) ELSE DefaultVotes)]
       /\ cl = [on |-> TRUE,
                rows |-> formats,
                votes |-> {p[2] : p \in mine},
                saved |-> [rows |-> formats, votes |-> {p[2] : p \in mine}],
                es |-> "chA", seen |-> 0,
                calls |-> [t \in Tx |-> NoCall],
                clicks |-> 0, blocked |-> 0, lastClick |-> MissingId, reconnects |-> 0]
  /\ tx = [t \in Tx |-> IdleTx]
  /\ sseClients = <<"chA">>
  /\ chan = [c \in Channels |-> IF c = "chA" THEN <<Newline>> ELSE <<>>]
  /\ life = [c \in Channels |-> IF c = "chA" THEN [NewLife EXCEPT !.state = "open", !.ord = 1] ELSE NewLife]
  /\ published = <<>>
  /\ broken = {}
  /\ faults = 0
  /\ pings = 0
  /\ adm = IdleAdmin
  /\ store0 = [formats |-> formats, votes |-> votes]

NextPage ==
  \/ \E t \in Tx, id \in FormatIds : Click(t, id)
  \/ \E t \in Tx : HandleResponse(t)
  \/ \E t \in Tx : NetworkError(t)
  \/ HandleEvent
  \/ Heartbeat
  \/ \E t \in Tx : OtherRequest(t, "f2")
  \/ \E t \in Tx : Begin(t)
  \/ \E t \in Tx : Select(t)
  \/ \E t \in Tx : Insert(t)
  \/ \E t \in Tx : Incr(t)
  \/ \E t \in Tx : Delete(t)
  \/ \E t \in Tx : Decr(t)
  \/ \E t \in Tx : Read(t)
  \/ \E t \in Tx : Commit(t)
  \/ \E t \in Tx : Respond(t)
  \/ \E t \in Tx : Catch(t)

SpecPage == InitPage /\ [][NextPage]_vars

\* ------------------------------------------------------------- properties
\* Vote requests that passed the deviceId check.
Calls == {t \in Tx : tx[t].deviceId # NoDevice}

Done(t) == tx[t].pc = "done"

Settled == \A t \in Tx : ~Active(t)

Store == [formats |-> formats, votes |-> votes]

Consistent(st) == \A f \in FormatIds : st.formats[f].votes = VoteRows(st.votes, f)

Max0(v) == IF v > 0 THEN v ELSE 0

\* C1: starting from a store whose counters equal their vote-row counts, once
\* every toggle call has committed or aborted, every format's counter again
\* equals the number of its vote rows.
CounterEqualsRows == (Consistent(store0) /\ Settled) => Consistent(Store)

\* Transactions in progress that hold an uncommitted vote row of pair p.
PendingInserts(p) == {t \in Tx : InProgress(t) /\ tx[t].ins /\ Pair(t) = p}

\* C2: no (deviceId, formatId) pair ever has more than one vote row, committed
\* or pending, also while several toggles of the pair are in flight.
AtMostOneVoteRow ==
  \A p \in Pairs : votes[p] + Cardinality(PendingInserts(p)) <= 1

AtMostOneVoteRowWitness ==
  \E t \in Tx, u \in Tx :
    /\ t # u /\ Pair(t) = Pair(u)
    /\ tx[t].rowCount = 0 /\ tx[u].rowCount = 0
    /\ tx[t].pc = "insert" /\ tx[u].pc = "respond" /\ tx[u].voted = TRUE
    /\ votes[Pair(t)] = 1

\* The toggle calls of pair p.
SamePairGroup(p) == {t \in Calls : Pair(t) = p}

\* C3: N >= 2 toggle calls of one pair that all ran their existence check
\* before any call committed change the pair's vote row exactly once (absent
\* to one row, or one row to absent) by the time all have finished, unless a
\* store failure cut every one of them short.
ConcurrentTogglesChangeOnce ==
  \A p \in Devices \X FormatIds :
    LET G == SamePairGroup(p)
    IN (/\ Cardinality(G) >= 2
        /\ \A t \in G : Done(t) /\ tx[t].early
        /\ \E t \in G : ~tx[t].faulted)
       => votes[p] = 1 - store0.votes[p]

ConcurrentTogglesChangeOnceWitness ==
  \E p \in Devices \X FormatIds :
    /\ Cardinality(SamePairGroup(p)) >= 2
    /\ \A t \in SamePairGroup(p) : Done(t) /\ tx[t].early /\ tx[t].status = 200
    /\ store0.votes[p] = 1
    /\ votes[p] = 0

\* Calls t and u are the only toggles, by two devices that had not voted for
\* one existing format, in flight together, neither hit by a store failure.
TwoVoters(t, u) ==
  /\ t # u /\ Calls = {t, u}
  /\ tx[t].id = tx[u].id /\ tx[t].id \in FormatIds
  /\ tx[t].deviceId # tx[u].deviceId
  /\ store0.votes[Pair(t)] = 0 /\ store0.votes[Pair(u)] = 0
  /\ Done(t) /\ Done(u)
  /\ tx[t].overlap /\ tx[u].overlap
  /\ ~tx[t].faulted /\ ~tx[u].faulted

\* C4: two devices that have not voted for a format and toggle it concurrently,
\* with no store failure, both commit and the counter ends two higher.
NoLostUpdate ==
  \A t \in Tx, u \in Tx :
    TwoVoters(t, u) =>
      /\ tx[t].status = 200 /\ tx[u].status = 200
      /\ tx[t].voted = TRUE /\ tx[u].voted = TRUE
      /\ formats[tx[t].id].votes = store0.formats[tx[t].id].votes + 2

NoLostUpdateWitness ==
  \E t \in Tx, u \in Tx :
    /\ TwoVoters(t, u)
    /\ tx[t].early /\ tx[u].early
    /\ formats[tx[t].id].votes = store0.formats[tx[t].id].votes + 2

\* C5: no format's counter, committed or pending in a transaction, is ever negative.
NoNegativeCounter ==
  /\ \A f \in DOMAIN formats : formats[f].votes >= 0
  /\ \A t \in Tx : tx[t].upd => tx[t].newVotes >= 0

\* A removal's decrement has met a counter that is already 0.
NoNegativeCounterWitness ==
  \E t \in Tx :
    /\ tx[t].pc = "read" /\ tx[t].upd /\ tx[t].rowCount > 0
    /\ formats[tx[t].id].votes = 0 /\ tx[t].newVotes = 0

\* C6: two successful toggles of one pair, one after the other and with no
\* other toggle, leave the vote table and the counters as before the first.
DoubleToggleRestores ==
  \A t \in Tx, u \in Tx :
    (/\ t < u /\ Calls = {t, u} /\ Pair(t) = Pair(u)
     /\ Done(t) /\ Done(u)
     /\ tx[t].status = 200 /\ tx[u].status = 200
     /\ ~tx[t].overlap /\ ~tx[u].overlap)
    => Store = tx[t].pre

\* Call t has finished on an existing format with no other call in flight
\* during it, none committed since, and no store failure.
RanAlone(t) ==
  /\ t \in Calls /\ Done(t) /\ tx[t].id \in FormatIds
  /\ ~tx[t].overlap /\ tx[t].quiet /\ ~tx[t].faulted

\* C7: a toggle that runs alone on an existing format, the store answering,
\* returns {true, v + 1} and leaves one row where there was none, returns
\* {false, max(v - 1, 0)} and leaves no row where there was one; the counter
\* is the value returned; no other pair and no other format changes.
SoloToggleResult ==
  \A t \in Tx :
    RanAlone(t) =>
      LET p == Pair(t)
          f == tx[t].id
          v == tx[t].pre.formats[f].votes
      IN /\ tx[t].status = 200
         /\ IF tx[t].pre.votes[p] = 0
            THEN tx[t].body = <<TRUE, v + 1>> /\ votes[p] = 1
            ELSE tx[t].body = <<FALSE, Max0(v - 1)>> /\ votes[p] = 0
         /\ formats[f].votes = tx[t].body[2]
         /\ formats[f].status = tx[t].pre.formats[f].status
         /\ \A q \in Pairs \ {p} : votes[q] = tx[t].pre.votes[q]
         /\ \A g \in FormatIds \ {f} : formats[g] = tx[t].pre.formats[g]

SoloToggleResultWitness ==
  \E t \in Tx :
    /\ RanAlone(t)
    /\ tx[t].pre.votes[Pair(t)] = 1
    /\ tx[t].pre.formats[tx[t].id].votes = 0
    /\ tx[t].body = <<FALSE, 0>>

\* C8: a toggle that ends with an error response leaves the vote table and
\* every counter as they were when it began (no other call having committed
\* in the meantime).
ErrorLeavesStore ==
  \A t \in Calls :
    (Done(t) /\ tx[t].status = 500 /\ tx[t].quiet) => Store = tx[t].pre

\* The failure came at COMMIT, after the statements had run.
ErrorLeavesStoreWitness ==
  \E t \in Calls :
    /\ Done(t) /\ tx[t].status = 500 /\ tx[t].quiet
    /\ tx[t].faulted /\ tx[t].vres # NoRow

\* C9: a toggle of a format id that does not exist is answered 404.
UnknownFormatIs404 ==
  \A t \in Calls : (Done(t) /\ tx[t].id = MissingId) => tx[t].status = 404

\* C10: a toggle of a format id that does not exist creates no vote row,
\* changes no counter and writes no event to any subscriber channel.
UnknownFormatNoEffect ==
  /\ \A d \in Devices : votes[<<d, MissingId>>] = 0
  /\ \A c \in Channels :
       \A i \in 1..Len(DataEvents(chan[c])) : DataEvents(chan[c])[i].id # MissingId
  /\ \A t \in Calls :
       (Done(t) /\ tx[t].id = MissingId /\ tx[t].quiet) => Store = tx[t].pre
  /\ (Calls # {} /\ \A t \in Calls : Done(t) /\ tx[t].id = MissingId)
       => \A c \in Channels : DataEvents(chan[c]) = <<>>

UnknownFormatNoEffectWitness ==
  \E t \in Calls :
    /\ Done(t) /\ tx[t].id = MissingId /\ tx[t].rowCount = 0 /\ ~tx[t].faulted
    /\ sseClients # <<>>

\* C11: a vote request without a deviceId is answered 400 at once: it opens no
\* transaction, writes nothing, leaves the vote table and every counter as
\* they were, and publishes no event.
MissingDeviceIdIs400 ==
  /\ \A t \in Tx :
       (tx[t].pc # "idle" /\ tx[t].deviceId = NoDevice) =>
         /\ tx[t].status = 400 /\ Done(t)
         /\ tx[t].rowCount = NoRow /\ ~tx[t].ins /\ tx[t].del = 0 /\ ~tx[t].upd
         /\ ~tx[t].committed
         /\ tx[t].quiet => Store = tx[t].pre
  /\ ((\E t \in Tx : tx[t].pc # "idle") /\ Calls = {})
       => (published = <<>> /\ \A c \in Channels : DataEvents(chan[c]) = <<>>)

MissingDeviceIdIs400Witness ==
  \E t \in Tx :
    /\ tx[t].status = 400 /\ tx[t].quiet /\ Calls = {}
    /\ tx[t].pre.votes[<<"d1", "f1">>] = 1
    /\ sseClients # <<>>

\* The calls whose COMMIT succeeded and whose handler has gone on to publish.
Published200 == {t \in Calls : Done(t) /\ tx[t].committed}

\* C12: every event handed to the broadcaster, and every data event written to
\* a channel, belongs to a call whose transaction had committed; a call that
\* was rolled back or has not committed yet has published nothing.
PublishOnlyAfterCommit ==
  /\ Len(published) <= Cardinality(Published200)
  /\ \A i \in 1..Len(published) :
       \E t \in Published200 : published[i] = Payload(tx[t].id, tx[t].body[2])
  /\ \A c \in Channels : Range(DataEvents(chan[c])) \subseteq Range(published)
  /\ (\A t \in Tx : ~tx[t].committed) => published = <<>>

\* One call committed and published, another was rolled back after its statements ran.
PublishOnlyAfterCommitWitness ==
  \E t \in Calls, u \in Calls :
    /\ Done(t) /\ tx[t].status = 500 /\ tx[t].vres # NoRow
    /\ Done(u) /\ tx[u].committed
    /\ Len(published) = 1

\* C13: every call that committed publishes exactly one event, for the toggled
\* format, carrying the votes value returned to the caller, which is the
\* counter value its transaction committed.
OneEventPerCommit ==
  /\ Len(published) = Cardinality(Published200)
  /\ \A t \in Published200 :
       /\ tx[t].status = 200
       /\ tx[t].cv # NoRow => tx[t].body[2] = tx[t].cv
       /\ \E i \in 1..Len(published) : published[i] = Payload(tx[t].id, tx[t].body[2])
  /\ \A c \in Range(sseClients) :
       (life[c].from = 0 /\ c \notin broken) => DataEvents(chan[c]) = published

OneEventPerCommitWitness ==
  /\ Cardinality(Published200) = 2
  /\ \E t \in Published200, u \in Published200 :
       /\ tx[t].id = tx[u].id /\ tx[t].overlap
       /\ tx[t].body[2] # tx[u].body[2]
  /\ DataEvents(chan["chA"]) = published

\* C14: within one publish, a write that throws on one registered response
\* does not stop the delivery to the others: every registered response whose
\* write does not throw gets the event appended, wherever the throwing one
\* stands in the registry.
PublishReachesTheOthers ==
  [][Len(published') = Len(published) + 1 =>
       \A c \in Range(sseClients) :
         ~WriteThrows(c) => chan'[c] = Append(chan[c], published'[Len(published')])]_vars

\* a subscribed before b, a's write threw in a publish, and b got that event
PublishReachesTheOthersWitness ==
  \E a \in Channels, b \in Channels :
    /\ life[a].state = "failed" /\ life[a].by = "publish"
    /\ life[b].state = "open" /\ life[a].ord < life[b].ord
    /\ life[b].from <= life[a].to
    /\ Len(DataEvents(chan[b])) >= life[a].to + 1 - life[b].from
    /\ DataEvents(chan[b])[life[a].to + 1 - life[b].from] = published[life[a].to + 1]

\* C15: a response whose write threw in a publish or a heartbeat has been
\* removed from the registry by that loop and has been written nothing since;
\* the voter whose publish met the failure still got its 200 answer.
FailedChannelRemoved ==
  \A c \in Channels :
    life[c].state = "failed" =>
      /\ c \notin Range(sseClients)
      /\ Len(chan[c]) = life[c].len
      /\ life[c].by \in {"publish", "ping"}
      /\ life[c].by = "publish" =>
           \E t \in Published200 :
             /\ tx[t].ev = life[c].to + 1
             /\ tx[t].status = 200
             /\ tx[t].body = <<tx[t].voted, published[tx[t].ev].votes>>

\* one response failed in a publish and a later publish has happened, or
\* failed in a heartbeat before a publish
FailedChannelRemovedWitness ==
  /\ \E c \in Channels :
       life[c].state = "failed" /\ life[c].by = "publish" /\ Len(published) > life[c].to + 1
  /\ \E c \in Channels :
       life[c].state = "failed" /\ life[c].by = "ping" /\ Len(published) > life[c].to

\* C16: the registry holds exactly the responses that subscribed and have
\* neither been closed by their client nor failed a write, each once.
RegistryIsTheOpenChannels ==
  /\ Range(sseClients) = {c \in Channels : life[c].state = "open"}
  /\ Len(sseClients) = Cardinality(Range(sseClients))

RegistryIsTheOpenChannelsWitness ==
  \E a \in Channels, b \in Channels :
    /\ life[a].state = "closed" /\ life[a].by = "close"
    /\ life[b].state = "open" /\ life[a].ord < life[b].ord
    /\ sseClients = <<b>>
    /\ published # <<>>

\* The events of a sequence that are about format f.
RECURSIVE ForFormat(_, _)
ForFormat(q, f) ==
  IF q = <<>> THEN <<>>
  ELSE IF Head(q).id = f THEN <<Head(q)>> \o ForFormat(Tail(q), f)
  ELSE ForFormat(Tail(q), f)

\* C17: a response that is still open holds, for each format, the events
\* published for it since the response subscribed, in the order they were
\* published and each once.
InPublishOrder ==
  \A c \in Channels :
    life[c].state = "open" =>
      \A f \in FormatIds :
        ForFormat(DataEvents(chan[c]), f)
          = ForFormat(SubSeq(published, life[c].from + 1, Len(published)), f)

InPublishOrderWitness ==
  \E c \in Channels :
    /\ life[c].state = "open"
    /\ Len(ForFormat(DataEvents(chan[c]), "f1")) = 2
    /\ DataEvents(chan[c])[1] # DataEvents(chan[c])[2]
    /\ Len(chan[c]) = 4

\* C18: a response holds only events published while it was registered:
\* nothing published before it subscribed, nothing published after it was
\* closed or removed.
NoReplay ==
  \A c \in Channels :
    LET d == DataEvents(chan[c])
        end == IF life[c].state = "open" THEN Len(published) ELSE life[c].to
    IN IF life[c].state = "new" THEN chan[c] = <<>>
       ELSE /\ Len(d) <= end - life[c].from
            /\ \A i \in 1..Len(d) : d[i] = published[life[c].from + i]

NoReplayWitness ==
  \E a \in Channels, b \in Channels :
    /\ Len(published) = 2 /\ published[1] # published[2]
    /\ life[a].state = "open" /\ life[a].from = 1
    /\ DataEvents(chan[a]) = <<published[2]>>
    /\ life[b].state = "closed" /\ life[b].from = 0 /\ life[b].to = 1
    /\ DataEvents(chan[b]) = <<published[1]>>

\* C19: deleting a format removes the format row and its vote rows as one
\* atomic step: in no state has the delete removed vote rows of a format
\* whose row still exists.
DeleteIsAtomic ==
  (adm.pc # "idle" /\ adm.removed > 0) => adm.id \notin DOMAIN formats

\* C20: the votes-by-device view lists only formats that exist: no vote row
\* references a format without a row, so a deleted format is never listed.
VotesByDeviceListsLiveFormats ==
  /\ \A d \in Devices : VotesByDevice(d) \subseteq DOMAIN formats
  /\ \A p \in Pairs : votes[p] > 0 => p[2] \in DOMAIN formats
  /\ (adm.pc = "done" /\ adm.status = 200) =>
       \A d \in Devices : adm.id \notin VotesByDevice(d)

\* a vote was committed between the two statements of the delete, and the
\* delete of the format row took it along
VotesByDeviceListsLiveFormatsWitness ==
  /\ adm.pc = "done" /\ adm.status = 200 /\ adm.id = "f1"
  /\ adm.removed > 0 /\ adm.cascaded > 0
  /\ \E t \in Published200 : tx[t].voted = TRUE /\ tx[t].deviceId = "d2"
  /\ VotesByDevice("d2") = {}

\* The number of vote rows of format f.
RowsOf(f) == Cardinality({p \in Pairs : p[2] = f /\ votes[p] > 0})

\* C21: in the store the initialisation and seed scripts produce, before any
\* toggle has run, every format's counter equals the number of its vote rows.
SeededCountersEqualRows ==
  \A f \in DOMAIN formats : formats[f].votes = RowsOf(f)

\* C27: no two format rows have names that are equal up to case, and a create
\* whose name matches an existing one up to case adds no row and leaves the
\* rows as they were.
NamesUniqueIgnoringCase ==
  /\ \A a \in DOMAIN formats, b \in DOMAIN formats :
       a # b => Lower(formats[a].name) # Lower(formats[b].name)
  /\ (adm.op = "create" /\ \E f \in DOMAIN adm.pre : Lower(adm.pre[f].name) = Lower(adm.name))
       => (formats = adm.pre /\ adm.status \notin {200, 201})

\* ' Av1 ' was refused while 'AV1' is there, or the other way round
NamesUniqueIgnoringCaseWitness ==
  /\ adm.op = "create" /\ adm.status = 500
  /\ \E f \in DOMAIN formats :
       formats[f].name # adm.name /\ Lower(formats[f].name) = Lower(adm.name)
  /\ Cardinality(DOMAIN formats) >= 2

\* C28: every format's status is one of Requested, Planned, Supported and
\* In Review, after any sequence of creates and status updates.
StatusIsOneOfFour == \A f \in DOMAIN formats : formats[f].status \in Statuses

\* The vote clicks whose request is out and whose response has not been handled.
InFlight == {t \in Tx : cl.calls[t].state = "sent"}

\* C22: on a vote click the client applies the counter delta and flips the
\* membership before the response arrives: while the request is in flight
\* (and nothing else has reached the client since the click) its state is the
\* state of the click with the optimistic change applied.
OptimisticWhileInFlight ==
  \A t \in InFlight :
    ((\A u \in Tx \ {t} : cl.calls[u].state = "none") /\ cl.seen = cl.calls[t].seen)
      => View(cl) = VoteToggle(View(cl.calls[t]), cl.calls[t].id)

\* C23: when a toggle request succeeds with {voted, votes}, the client's state
\* for that format after handling the response has counter = votes and
\* membership = voted, whatever they were before.
ResponseWins ==
  [][\A t \in Tx :
       (cl.on /\ cl.calls[t].state = "sent" /\ cl'.calls[t].state = "handled"
          /\ tx[t].status = 200)
         => /\ cl'.rows[tx[t].id].votes = tx[t].body[2]
            /\ (tx[t].id \in cl'.votes) = tx[t].body[1]]_vars

\* a handled response that differs from the click's own guess in counter and
\* in membership
ResponseWinsWitness ==
  \E t \in Tx :
    /\ cl.calls[t].state = "handled" /\ tx[t].status = 200
    /\ LET guess == VoteToggle(View(cl.calls[t]), tx[t].id)
       IN /\ guess.rows[tx[t].id].votes # tx[t].body[2]
          /\ (tx[t].id \in guess.votes) # tx[t].body[1]
    /\ cl.rows[tx[t].id].votes = tx[t].body[2]
    /\ (tx[t].id \in cl.votes) = tx[t].body[1]

\* C24: handling a broadcast event {id, votes} changes only the votes counter
\* of the row with that id: the voted-for set, every other row and every
\* other field of the row stay, and an event for an id that is not in the
\* collection changes nothing.
EventChangesOnlyCounter ==
  [][(cl.on /\ cl'.es = cl.es /\ cl'.seen = cl.seen + 1) =>
       LET fr == chan[cl.es][cl.seen + 1]
       IN /\ cl'.votes = cl.votes
          /\ DOMAIN cl'.rows = DOMAIN cl.rows
          /\ \A f \in DOMAIN cl.rows :
               cl'.rows[f] = IF fr.type = "data" /\ fr.id = f
                             THEN [cl.rows[f] EXCEPT !.votes = fr.votes]
                             ELSE cl.rows[f]
          /\ cl'.calls = cl.calls]_vars

\* the client has handled an event for a row it has, which changed the
\* counter it shows, and an event for an id it does not have
EventChangesOnlyCounterWitness ==
  /\ \E i \in 1..cl.seen :
       /\ chan[cl.es][i].type = "data"
       /\ chan[cl.es][i].id \notin DOMAIN cl.rows
  /\ \E i \in 1..cl.seen :
       /\ chan[cl.es][i].type = "data"
       /\ chan[cl.es][i].id \in DOMAIN cl.rows
       /\ cl.rows[chan[cl.es][i].id].votes = chan[cl.es][i].votes
       /\ cl.rows[chan[cl.es][i].id].votes # store0.formats[chan[cl.es][i].id].votes
  /\ cl.reconnects = 0

\* Nothing is on its way: no request in progress, no response unhandled, no
\* frame of the client's stream unhandled.
AllDelivered ==
  /\ \A t \in Tx : ~Active(t)
  /\ InFlight = {}
  /\ life[cl.es].state = "open"
  /\ cl.seen = Len(chan[cl.es])

\* The client shows the committed counter of every row it has.
ShowsTheStore ==
  \A f \in DOMAIN cl.rows \cap DOMAIN formats : cl.rows[f].votes = formats[f].votes

\* The last event published for each format carries its committed counter.
LastEventIsCurrent ==
  \A f \in DOMAIN formats :
    LET es == ForFormat(published, f)
    IN es # <<>> => es[Len(es)].votes = formats[f].votes

\* C25: for a client that stayed connected, once every response and every
\* published event has been handled, in whichever order they came, its
\* counter of each format equals the committed counter (stated for runs
\* whose events were published in the order of the commits).
ConvergesToStore ==
  (cl.reconnects = 0 /\ LastEventIsCurrent /\ AllDelivered) => ShowsTheStore

\* C26: a client whose event stream was lost and set up again fetches the
\* catalog again, so once nothing is on its way its counters equal the
\* committed ones although it missed events (stated for a client that only
\* listens).
ReconnectCatchesUp ==
  (cl.reconnects > 0 /\ cl.clicks = 0 /\ AllDelivered) => ShowsTheStore

\* C29: only formats with status Requested accept votes: a format whose
\* status is not Requested gains no vote row and its counter no increment.
OnlyRequestedAcceptVotes ==
  \A f \in DOMAIN formats :
    formats[f].status # "Requested" =>
      /\ formats[f].votes <= store0.formats[f].votes
      /\ \A d \in Devices : votes[<<d, f>>] <= store0.votes[<<d, f>>]

\* C30: the client sends a toggle request for a format only when the row it
\* has for it says Requested; a vote click on a row with another status, or
\* on an id it has no row for, sends nothing and changes nothing of its state.
ClickOnlyWhenRequested ==
  [][(cl.on /\ cl'.clicks = cl.clicks + 1) =>
       LET id == cl'.lastClick
       IN IF id \in DOMAIN cl.rows /\ cl.rows[id].status = "Requested"
          THEN \E t \in Tx :
                 /\ tx[t].pc = "idle" /\ tx'[t].pc = "begin"
                 /\ tx'[t].id = id /\ tx'[t].deviceId = Me
          ELSE /\ tx' = tx
               /\ View(cl') = View(cl)
               /\ cl'.calls = cl.calls]_vars

\* a click on the Planned row and a click on an id without a row, and no request
ClickOnlyWhenRequestedWitness ==
  /\ cl.on /\ cl.blocked = 2
  /\ "f2" \in DOMAIN cl.rows /\ cl.rows["f2"].status = "Planned"
  /\ cl.lastClick = "f2"
  /\ \A t \in Tx : tx[t].pc = "idle"

\* The frame the event source hands over next.
NextFrame == chan[cl.es][cl.seen + 1]

\* C31: a heartbeat is not framed as a data event, and the client's rows,
\* counters, voted set and saved copy are the same after it has processed
\* one as they were before, however many it processes.
HeartbeatChangesNothing ==
  [][(cl.on /\ cl.seen < Len(chan[cl.es]) /\ cl'.seen = cl.seen + 1 /\ NextFrame = Ping)
       => /\ NextFrame.type # "data"
          /\ DOMAIN NextFrame = {"type"}
          /\ View(cl') = View(cl)
          /\ cl'.saved = cl.saved]_vars

HeartbeatChangesNothingWitness ==
  /\ cl.on
  /\ pings > 0
  /\ \E i \in 1..cl.seen : chan[cl.es][i] = Ping
  /\ \E i \in 1..cl.seen : chan[cl.es][i].type = "data"

\* The connection of request t is back in the pool: committed or rolled back,
\* holding no lock.
Released(t) ==
  /\ tx[t].pc = "done"
  /\ tx[t].committed \/ tx[t].status = 500
  /\ ~tx[t].ins /\ tx[t].del = 0 /\ ~tx[t].upd

\* C32: every toggle transaction that begins commits or rolls back in the end
\* and releases its connection, whatever other toggles run beside it on the
\* same or on other pairs, as long as the store keeps responding.
ToggleTerminates ==
  \A t \in Tx : (tx[t].pc = "begin") ~> Released(t)

ToggleTerminatesWitness ==
  \E t \in Tx :
    /\ tx[t].pc = "decr" /\ tx[t].del > 0
    /\ FormatLocked(t)

\* A request of the catalog (create a format, set a status) is answered.
CatalogStep == adm' # adm /\ adm'.op \in {"create", "status"}

\* C33: creating a format and setting a status leave every vote row and the
\* counter of every format that was there as they were; a vote row appears
\* only when a toggle that inserted it commits, and goes only when a toggle
\* that deleted it commits or when its format is deleted.
CatalogLeavesVotes ==
  [][/\ CatalogStep =>
          /\ votes' = votes
          /\ \A f \in DOMAIN formats :
               f \in DOMAIN formats' /\ formats'[f].votes = formats[f].votes
     /\ \A p \in Pairs :
          /\ votes'[p] > votes[p] =>
               \E t \in Tx : tx[t].pc = "commit" /\ tx'[t].pc = "respond" /\ Pair(t) = p /\ tx[t].ins
          /\ votes'[p] < votes[p] =>
               \/ \E t \in Tx : tx[t].pc = "commit" /\ tx'[t].pc = "respond"
                                  /\ Pair(t) = p /\ tx[t].del > 0
               \/ AdminBusy /\ adm'.pc # adm.pc /\ adm.id = p[2]]_vars

CatalogLeavesVotesWitness ==
  /\ adm.op = "status" /\ adm.status = 200 /\ adm.id = "f1"
  /\ adm.pre["f1"].votes > 0
  /\ "fx" \in DOMAIN formats
  /\ \E t \in Tx : tx[t].committed /\ tx[t].quiet = FALSE
  /\ votes # store0.votes

\* C34: a toggle in the delete direction has decremented the counter only if
\* its own DELETE removed the vote row; the second of two racing removals,
\* whose DELETE finds nothing, leaves the counter alone.
DecrementOnlyIfRemoved ==
  \A t \in Tx :
    (tx[t].pc \in {"read", "commit"} /\ tx[t].rowCount > 0 /\ tx[t].del = 0 /\ tx[t].upd)
      => tx[t].newVotes = CurrentVotes(t)

\* The response of the click behind request t has been processed, and it said
\* the toggle succeeded and the device now votes for the format.
VotedAndHandled(t) ==
  /\ cl.calls[t].state = "handled"
  /\ tx[t].status = 200
  /\ tx[t].body[1]

\* C35: when the client's toggles for two different formats have both
\* succeeded with voted = true and both responses have been processed, the
\* client's voted set holds both formats.
BothVotesKept ==
  \A t, u \in Tx :
    (cl.on /\ VotedAndHandled(t) /\ VotedAndHandled(u) /\ cl.calls[t].id # cl.calls[u].id)
      => {cl.calls[t].id, cl.calls[u].id} \subseteq cl.votes

\* C36: processing the response of the client's own toggle for one format
\* leaves the counter the client shows for every other format as it was, so a
\* counter set by an event while the request was in flight is still there.
ResponseKeepsOtherCounters ==
  [][\A t \in Tx :
       (cl.on /\ cl.calls[t].state = "sent" /\ cl'.calls[t].state = "handled")
         => \A g \in DOMAIN cl.rows \ {cl.calls[t].id} :
              cl'.rows[g].votes = cl.rows[g].votes]_vars

\* C37: once every toggle has finished, the last event for a format on a
\* response that is still open carries the format's committed counter (the
\* events of a format having been published in the order of the commits).
LastDeliveredIsCurrent ==
  (\A t \in Tx : ~Active(t)) =>
    \A c \in Channels, f \in DOMAIN formats :
      LET es == ForFormat(DataEvents(chan[c]), f)
      IN (life[c].state = "open" /\ es # <<>>) => es[Len(es)].votes = formats[f].votes

\* C38: a toggle that runs beside the deletion of its format, and commits
\* when the format is gone, does not answer success and publishes no event.
NoSuccessForDeletedFormat ==
  \A t \in Tx :
    (tx[t].committed /\ tx[t].cv = NoRow) => (tx[t].status # 200 /\ tx[t].ev = IdleTx.ev)

\* The request of the click behind call t has failed for the client: its
\* response had a status other than 2xx, or the fetch rejected.
FailsNow(t) ==
  /\ cl.calls[t].state = "sent"
  /\ \/ cl'.calls[t].state = "failed"
     \/ cl'.calls[t].state = "handled" /\ tx[t].status # 200

\* C39: when the client's toggle request fails, processing the failure
\* changes neither the rows, the counters, the voted set nor the saved copy;
\* and as the click changed none of them either, they are as before the
\* click unless an event or another response came in between.
FailureChangesNothing ==
  [][\A t \in Tx :
       (cl.on /\ FailsNow(t)) =>
         /\ View(cl') = View(cl)
         /\ cl'.saved = cl.saved
         /\ (cl.seen = cl.calls[t].seen
               /\ \A u \in Tx \ {t} : cl.calls[u].state \in {"none", "sent", "failed"})
              => View(cl') = [rows |-> cl.calls[t].rows, votes |-> cl.calls[t].votes]]_vars

FailureChangesNothingWitness ==
  /\ cl.on
  /\ \E t \in Tx : cl.calls[t].state = "handled" /\ tx[t].status = 500
  /\ \E t \in Tx : cl.calls[t].state = "failed"
====
